---- MODULE Spec2Model ----
(***************************************************************************)
(* Model of orbox.ts: the Vector / Position arithmetic, the GameObject     *)
(* hierarchy with its bounded move, the keydown handler and the render     *)
(* tick.                                                                   *)
(*                                                                         *)
(* Vectors are JavaScript objects, so they live in a heap: a sequence of   *)
(* cells [x, y] addressed by their index.  Every operator that the source  *)
(* implements with `new Vector` allocates a cell; a call's temporaries are *)
(* unreachable once the call returns and are dropped from the heap.        *)
(***************************************************************************)
EXTENDS Integers, Sequences, FiniteSets

VARIABLES
    heap,         \* the Vector / Position objects: address -> [x, y]
    gameObjects,  \* the gameObjects array (lines 261-276)
    frame,        \* what the last render tick drew on the canvas
    lastCall,     \* the last operation that ran and how it ended
    rights,       \* number of consecutive ArrowRight keydown events
    ticks,        \* number of render ticks so far
    trip,         \* a left-then-right round trip in progress
    moves,        \* number of move calls made around the render ticks so far
    plusTest      \* a plus(a); plus(b) against plus(a, b) comparison in progress

vars == <<heap, gameObjects, frame, lastCall, rights, ticks, trip, moves,
          plusTest>>

----------------------------------------------------------------------------
(* Constants of the program and bounds of the model *)

units == 20

\* canvas.width / canvas.height of the #canvas element
CanvasWidth == 400
CanvasHeight == 400

MaxRights == 15   \* longest run of ArrowRight events explored
MaxTicks == 3     \* render ticks explored
MaxMoves == 3     \* move calls explored around the render ticks
MaxMag == 2       \* displacements explored: -MaxMag*units .. MaxMag*units
MaxCoord == 1     \* vector components drawn: -MaxCoord .. MaxCoord
MaxArgs == 2      \* vectors passed to add in the Vector specification

----------------------------------------------------------------------------
(* Vector (lines 17-75) *)

Vector(x, y) == [x |-> x, y |-> y]

\* `new Vector(x, y)`: a fresh object
Alloc(h, x, y) == [heap |-> Append(h, Vector(x, y)), ret |-> Len(h) + 1]

Vector_new(h, x, y) == Alloc(h, x, y)

\* a caching getter: hands out an object that already exists
Vector_origin_shared(h) ==
    IF Len(h) >= 1 THEN [heap |-> h, ret |-> 1] ELSE Alloc(h, 0, 0)

\* static get origin: a new (0, 0) on every read
Vector_origin(h) == Alloc(h, 0, 0)

\* the forEach of Vector.add: resultantVector.x += vector.x, .y += vector.y
RECURSIVE AddEach(_, _, _, _)
AddEach(h, r, vectors, i) ==
    IF i > Len(vectors) THEN h
    ELSE AddEach([h EXCEPT ![r] = Vector(h[r].x + h[vectors[i]].x,
                                         h[r].y + h[vectors[i]].y)],
                 r, vectors, i + 1)

\* add that drops its last argument
Vector_add_short(h, vectors) ==
    LET o == Vector_origin(h)
    IN  [heap |-> AddEach(o.heap, o.ret,
                          SubSeq(vectors, 1, Len(vectors) - 1), 1),
         ret |-> o.ret]

Vector_add(h, vectors) ==
    LET o == Vector_origin(h)
    IN  [heap |-> AddEach(o.heap, o.ret, vectors, 1), ret |-> o.ret]

\* plus that adds only its first argument
Vector_plus_first(h, this, vectors) ==
    LET c == Alloc(h, h[this].x, h[this].y)
        r == Vector_add(c.heap, <<c.ret>> \o SubSeq(vectors, 1, 1))
    IN  [r.heap EXCEPT ![this] = Vector(r.heap[r.ret].x, r.heap[r.ret].y)]

Vector_plus(h, this, vectors) ==
    LET c == Alloc(h, h[this].x, h[this].y)
        r == Vector_add(c.heap, <<c.ret>> \o vectors)
    IN  [r.heap EXCEPT ![this] = Vector(r.heap[r.ret].x, r.heap[r.ret].y)]

----------------------------------------------------------------------------
(* Position (lines 80-140) *)

Position_move(h, this, vector) == Vector_plus(h, this, <<vector>>)

Position_moveX(h, this, x) ==
    LET v == Alloc(h, x, 0) IN Position_move(v.heap, this, v.ret)

Position_moveY(h, this, y) ==
    LET v == Alloc(h, 0, y) IN Position_move(v.heap, this, v.ret)

Position_moveLeft(h, this, n) == Position_moveX(h, this, -n)
Position_moveUp(h, this, n) == Position_moveY(h, this, -n)
Position_moveDown(h, this, n) == Position_moveY(h, this, n)
Position_moveRight(h, this, n) == Position_moveX(h, this, n)

----------------------------------------------------------------------------
(* GameObject, Rectangle (lines 142-193) *)

\* a lower clamp that starts one unit early
ClampAxis_margin(v, size) ==
    IF v <= units THEN 0
    ELSE IF v > size - units THEN size - units
    ELSE v

\* the if / else if on one axis, against canvas size minus `units`
ClampAxis(v, size) ==
    IF v < 0 THEN 0
    ELSE IF v > size - units THEN size - units
    ELSE v

GameObject_move(h, this, vector) ==
    LET h1 == Position_move(h, this.pos, vector)
        h2 == [h1 EXCEPT ![this.pos].x = ClampAxis(h1[this.pos].x, CanvasWidth)]
        h3 == [h2 EXCEPT ![this.pos].y = ClampAxis(h2[this.pos].y, CanvasHeight)]
    IN  [heap |-> h3, threw |-> FALSE]

\* player.move = (vector) => { if (this.pos.x > 0 && vector.x < 0) {} }
\* The arrow function takes `this` from the top level of the script, which
\* has no `pos`: reading `.x` of undefined throws a TypeError before
\* anything is changed.
player_move(h, vector) == [heap |-> h, threw |-> TRUE]

\* obj.move(vector): the own property if the object has one (line 278),
\* the prototype's method otherwise
CallMove(h, obj, vector) ==
    IF obj.move = "own" THEN player_move(h, vector)
    ELSE GameObject_move(h, obj, vector)

Rectangle(pos, width, height, stroke, fill) ==
    [pos |-> pos, width |-> width, height |-> height,
     stroke |-> stroke, fill |-> fill, move |-> "prototype"]

ArrowLeft == "ArrowLeft"
ArrowDown == "ArrowDown"
ArrowUp == "ArrowUp"
ArrowRight == "ArrowRight"
ArrowKey == {ArrowLeft, ArrowDown, ArrowUp, ArrowRight}

\* the keys the keyboard may deliver
Keys == ArrowKey \cup {"a", "Enter"}

----------------------------------------------------------------------------
(* Main (lines 226-301) *)

background == 1
player == 2

\* the Position objects created at lines 265-276, in creation order
InitHeap ==
    << Vector(0, 0), Vector(5 * units, 6 * units),
       Vector(8 * units, 6 * units), Vector(0 * units, 6 * units),
       Vector(1 * units, 2 * units), Vector(5 * units, 5 * units) >>

InitObjects ==
    << Rectangle(1, CanvasWidth, CanvasHeight, "#7777ff", "#7777ff"),
       [Rectangle(2, units, units, "blue", "#7777ff") EXCEPT !.move = "own"],
       Rectangle(3, units, units, "black", "black"),
       Rectangle(4, units, units, "black", "black"),
       Rectangle(5, units, units, "black", "black"),
       Rectangle(6, units, units, "black", "black") >>

\* the objects that survive a handler: the positions of the game objects
Live(h) == SubSeq(h, 1, Len(InitObjects))

drawRect(stroke, fill, pos, width, height) ==
    [x |-> pos.x, y |-> pos.y, width |-> width, height |-> height,
     stroke |-> stroke, fill |-> fill]

\* clearRect, then object.render() for each object in order
render(h, objects) ==
    [i \in 1..Len(objects) |->
        drawRect(objects[i].stroke, objects[i].fill, h[objects[i].pos],
                 objects[i].width, objects[i].height)]

\* a handler whose default case nudges the player's position directly
keydown_default_moves(h, objects, key) ==
    CASE key = ArrowLeft ->
            LET v == Vector_new(h, -units, 0)
            IN  CallMove(v.heap, objects[player], v.ret)
      [] key = ArrowUp ->
            LET v == Vector_new(h, 0, -units)
            IN  CallMove(v.heap, objects[player], v.ret)
      [] key = ArrowDown ->
            LET v == Vector_new(h, 0, units)
            IN  CallMove(v.heap, objects[player], v.ret)
      [] key = ArrowRight ->
            LET v == Vector_new(h, units, 0)
            IN  CallMove(v.heap, objects[player], v.ret)
      [] OTHER ->
            [heap |-> Position_moveRight(h, objects[player].pos, units),
             threw |-> FALSE]

\* the keydown listener: the switch on event.key
keydown(h, objects, key) ==
    CASE key = ArrowLeft ->
            LET v == Vector_new(h, -units, 0)
            IN  CallMove(v.heap, objects[player], v.ret)
      [] key = ArrowUp ->
            LET v == Vector_new(h, 0, -units)
            IN  CallMove(v.heap, objects[player], v.ret)
      [] key = ArrowDown ->
            LET v == Vector_new(h, 0, units)
            IN  CallMove(v.heap, objects[player], v.ret)
      [] key = ArrowRight ->
            LET v == Vector_new(h, units, 0)
            IN  CallMove(v.heap, objects[player], v.ret)
      [] OTHER -> [heap |-> h, threw |-> FALSE]

NoCall == [op |-> "none", key |-> "", ent |-> 0, dx |-> 0, dy |-> 0,
           threw |-> FALSE]
NoTrip == [phase |-> "none", ent |-> 0, m |-> 0, from |-> Vector(0, 0)]
NoPlusTest == [phase |-> "none", a |-> 0, b |-> 0, p0 |-> Vector(0, 0)]

Init ==
    /\ heap = InitHeap
    /\ gameObjects = InitObjects
    /\ frame = << >>
    /\ lastCall = NoCall
    /\ rights = 0
    /\ ticks = 0
    /\ trip = NoTrip
    /\ moves = 0
    /\ plusTest = NoPlusTest

\* one keydown event, handled to completion
KeyDown(key) ==
    /\ key = ArrowRight => rights < MaxRights
    /\ LET r == keydown(heap, gameObjects, key)
       IN  /\ heap' = Live(r.heap)
           /\ lastCall' = [NoCall EXCEPT !.op = "keydown", !.key = key,
                                         !.threw = r.threw]
    /\ rights' = IF key = ArrowRight THEN rights + 1 ELSE 0
    /\ UNCHANGED <<gameObjects, frame, ticks, trip, moves, plusTest>>

\* one firing of setInterval(render, fps, gameObjects)
Render ==
    /\ ticks < MaxTicks
    /\ frame' = render(heap, gameObjects)
    /\ ticks' = ticks + 1
    /\ lastCall' = [NoCall EXCEPT !.op = "render"]
    /\ UNCHANGED <<heap, gameObjects, rights, trip, moves, plusTest>>

Next ==
    \/ \E key \in Keys : KeyDown(key)
    \/ Render

Spec == Init /\ [][Next]_vars

----------------------------------------------------------------------------
(* The program's claims, under Spec *)

playerPos == heap[gameObjects[player].pos]

\* the displacement the listener builds for an arrow key
StepOf(key) ==
    CASE key = ArrowLeft -> Vector(-units, 0)
      [] key = ArrowUp -> Vector(0, -units)
      [] key = ArrowDown -> Vector(0, units)
      [] key = ArrowRight -> Vector(units, 0)

Between(lo, v, hi) == IF v < lo THEN lo ELSE IF v > hi THEN hi ELSE v

\* obj's position lies in [0, canvas.width - width] x [0, canvas.height - height]
InOwnBounds(p, obj) ==
    /\ 0 <= p.x /\ p.x <= CanvasWidth - obj.width
    /\ 0 <= p.y /\ p.y <= CanvasHeight - obj.height

\* C2: each arrow keydown displaces the player by one step on the matching
\* axis and clamps the result to the world; from the start position
\* (100, 120) one ArrowRight leaves the player at (120, 120).
C2_ArrowKeyMovesPlayer ==
    [][\A key \in ArrowKey :
          (lastCall'.op = "keydown" /\ lastCall'.key = key) =>
              LET obj == gameObjects[player]
                  d == StepOf(key)
              IN  /\ heap'[obj.pos].x =
                        Between(0, playerPos.x + d.x, CanvasWidth - obj.width)
                  /\ heap'[obj.pos].y =
                        Between(0, playerPos.y + d.y, CanvasHeight - obj.height)]_vars

\* C3: under repeated ArrowRight the player's x never exceeds
\* canvas.width - width, and once enough ArrowRight events have arrived to
\* cover the distance from the start it sits at canvas.width - width.
C3_RightSaturates ==
    LET obj == gameObjects[player]
        edge == CanvasWidth - obj.width
    IN  /\ playerPos.x <= edge
        /\ rights * units >= edge - InitHeap[player].x => playerPos.x = edge

\* C4: the keydown handler never throws, whatever the key and position.
C4_KeyDownNeverThrows == lastCall.op = "keydown" => ~lastCall.threw

\* C5: a keydown whose key is not an arrow key leaves every position and
\* the list of game objects unchanged.
C5_OtherKeyIsNoOp ==
    [][(lastCall'.op = "keydown" /\ lastCall'.key \notin ArrowKey) =>
          (heap' = heap /\ gameObjects' = gameObjects)]_vars

C5_Witness ==
    /\ lastCall.op = "keydown" /\ lastCall.key \notin ArrowKey
    /\ ~lastCall.threw
    /\ heap = InitHeap /\ gameObjects = InitObjects

----------------------------------------------------------------------------
(* GameObject.move called on any game object with any displacement *)

\* the magnitudes and displacement components explored
Mags == {k * units : k \in 0..MaxMag}
Deltas == {k * units : k \in -MaxMag..MaxMag}

\* the other objects rest at their starting positions: one object is
\* exercised at a time
OthersAtStart(i) ==
    \A j \in 1..Len(gameObjects) : j /= i => heap[j] = InitHeap[j]

\* 0 < x < canvas.width - width and 0 < y < canvas.height - height
StrictlyInside(p, obj) ==
    /\ 0 < p.x /\ p.x < CanvasWidth - obj.width
    /\ 0 < p.y /\ p.y < CanvasHeight - obj.height

\* gameObjects[i].move(new Vector(dx, dy))
Move(i, dx, dy) ==
    /\ OthersAtStart(i)
    /\ LET v == Vector_new(heap, dx, dy)
           r == CallMove(v.heap, gameObjects[i], v.ret)
       IN  /\ heap' = Live(r.heap)
           /\ lastCall' = [NoCall EXCEPT !.op = "move", !.ent = i, !.dx = dx,
                                         !.dy = dy, !.threw = r.threw]
    /\ trip' = NoTrip
    /\ UNCHANGED <<gameObjects, frame, rights, ticks, moves, plusTest>>

\* first half of a round trip: gameObjects[i].move(new Vector(-m, 0)) from a
\* position strictly inside the boundary
TripLeft(i, m) ==
    /\ OthersAtStart(i)
    /\ StrictlyInside(heap[gameObjects[i].pos], gameObjects[i])
    /\ LET v == Vector_new(heap, -m, 0)
           r == CallMove(v.heap, gameObjects[i], v.ret)
       IN  /\ heap' = Live(r.heap)
           /\ lastCall' = [NoCall EXCEPT !.op = "left", !.ent = i, !.dx = -m,
                                         !.threw = r.threw]
    /\ trip' = [phase |-> "left", ent |-> i, m |-> m,
                from |-> heap[gameObjects[i].pos]]
    /\ UNCHANGED <<gameObjects, frame, rights, ticks, moves, plusTest>>

\* second half: the same object moves right by the same magnitude
TripRight ==
    /\ trip.phase = "left"
    /\ LET v == Vector_new(heap, trip.m, 0)
           r == CallMove(v.heap, gameObjects[trip.ent], v.ret)
       IN  /\ heap' = Live(r.heap)
           /\ lastCall' = [NoCall EXCEPT !.op = "right", !.ent = trip.ent,
                                         !.dx = trip.m, !.threw = r.threw]
    /\ trip' = [trip EXCEPT !.phase = "done"]
    /\ UNCHANGED <<gameObjects, frame, rights, ticks, moves, plusTest>>

NextMove ==
    \/ \E i \in 1..Len(gameObjects), dx \in Deltas, dy \in Deltas :
          Move(i, dx, dy)
    \/ \E i \in 1..Len(gameObjects), m \in Mags : TripLeft(i, m)
    \/ TripRight

SpecMove == Init /\ [][NextMove]_vars

\* C1: after move(d) every game object lies inside the world by its own
\* size: 0 <= x <= canvas.width - width and 0 <= y <= canvas.height - height.
C1_ClampByOwnSize ==
    lastCall.op = "move" =>
        InOwnBounds(heap[gameObjects[lastCall.ent].pos],
                    gameObjects[lastCall.ent])

\* C9 as stated: from a position strictly inside the boundary, moving left
\* by any magnitude m >= 0 and then right by m restores the position.
C9_RoundTripAnyMagnitude ==
    trip.phase = "done" => heap[gameObjects[trip.ent].pos] = trip.from

\* C9 amended: from a position strictly inside the boundary, moving left by
\* an integer magnitude m with 0 <= m <= x and then right by m restores the
\* position.
C9_RoundTripWithinReach ==
    (trip.phase = "done" /\ trip.m <= trip.from.x) =>
        heap[gameObjects[trip.ent].pos] = trip.from

C9_Witness ==
    /\ trip.phase = "done" /\ trip.m > 0 /\ trip.m <= trip.from.x
    /\ gameObjects[trip.ent].move = "prototype"
    /\ lastCall.op = "right" /\ ~lastCall.threw
    /\ heap[gameObjects[trip.ent].pos] = trip.from

----------------------------------------------------------------------------
(* Vector.add and Vector.plus on vectors drawn from a bounded set *)

Coords == -MaxCoord..MaxCoord
Vectors == {Vector(x, y) : x \in Coords, y \in Coords}

VecCall(op, this, args, argv, pre, ret) ==
    [op |-> op, this |-> this, args |-> args, argv |-> argv, pre |-> pre,
     ret |-> ret]
NoVecCall == VecCall("none", 0, << >>, << >>, Vector(0, 0), 0)

\* the values held by the objects at the addresses `args`
ValuesOf(h, args) == [i \in 1..Len(args) |-> h[args[i]]]

\* the heap holds up to MaxArgs argument vectors
InitVec ==
    /\ heap \in UNION {[1..n -> Vectors] : n \in 0..MaxArgs}
    /\ gameObjects = << >>
    /\ frame = << >>
    /\ lastCall = NoVecCall
    /\ rights = 0
    /\ ticks = 0
    /\ trip = NoTrip
    /\ moves = 0
    /\ plusTest = NoPlusTest

\* r = Vector.add(v1, ..., vn) on all the argument vectors
VAdd ==
    /\ lastCall.op = "none"
    /\ LET args == [i \in 1..Len(heap) |-> i]
           r == Vector_add(heap, args)
       IN  /\ heap' = r.heap
           /\ lastCall' = VecCall("add", 0, args, ValuesOf(heap, args),
                                  Vector(0, 0), r.ret)
    /\ UNCHANGED <<gameObjects, frame, rights, ticks, trip, moves, plusTest>>

\* r.plus(v1, ..., vn): the result of the add is mutated
VPlus ==
    /\ lastCall.op = "add"
    /\ LET this == lastCall.ret
           h == Vector_plus(heap, this, lastCall.args)
       IN  /\ heap' = SubSeq(h, 1, Len(heap))
           /\ lastCall' = VecCall("plus", this, lastCall.args,
                                  ValuesOf(heap, lastCall.args), heap[this],
                                  this)
    /\ UNCHANGED <<gameObjects, frame, rights, ticks, trip, moves, plusTest>>

\* a later Vector.add(v1, ..., vk), k = 0 being add()
VAddAgain(k) ==
    /\ lastCall.op = "plus"
    /\ k <= Len(heap) - 1
    /\ LET args == [i \in 1..k |-> i]
           r == Vector_add(heap, args)
       IN  /\ heap' = r.heap
           /\ lastCall' = VecCall("add2", 0, args, ValuesOf(heap, args),
                                  Vector(0, 0), r.ret)
    /\ UNCHANGED <<gameObjects, frame, rights, ticks, trip, moves, plusTest>>

NextVec ==
    \/ VAdd
    \/ VPlus
    \/ \E k \in 0..MaxArgs : VAddAgain(k)

SpecVec == InitVec /\ [][NextVec]_vars

RECURSIVE SumX(_)
SumX(vs) == IF vs = << >> THEN 0 ELSE vs[1].x + SumX(Tail(vs))

RECURSIVE SumY(_)
SumY(vs) == IF vs = << >> THEN 0 ELSE vs[1].y + SumY(Tail(vs))

\* C7: Vector.add returns the component-wise sum of its arguments; add()
\* returns (0, 0) and add(v) returns a vector equal to v.
C7_AddIsSum ==
    lastCall.op \in {"add", "add2"} =>
        /\ heap[lastCall.ret].x = SumX(lastCall.argv)
        /\ heap[lastCall.ret].y = SumY(lastCall.argv)
        /\ lastCall.argv = << >> => heap[lastCall.ret] = Vector(0, 0)
        /\ Len(lastCall.argv) = 1 => heap[lastCall.ret] = lastCall.argv[1]

C7_Witness ==
    /\ lastCall.op = "add" /\ Len(lastCall.argv) = 2
    /\ lastCall.argv[1] /= Vector(0, 0) /\ lastCall.argv[2] /= Vector(0, 0)
    /\ lastCall.argv[1].x /= lastCall.argv[2].y
    /\ heap[lastCall.ret] = Vector(lastCall.argv[1].x + lastCall.argv[2].x,
                                   lastCall.argv[1].y + lastCall.argv[2].y)

\* C10: Vector.add changes none of the vectors that exist when it is called
\* and returns a vector that did not exist before, so a result mutated by
\* plus does not show in a later add(); plus changes its receiver only.
C10_AddIsPure ==
    [][/\ lastCall'.op \in {"add", "add2"} =>
            /\ lastCall'.ret \notin DOMAIN heap
            /\ \A a \in DOMAIN heap : heap'[a] = heap[a]
            /\ lastCall'.args = << >> => heap'[lastCall'.ret] = Vector(0, 0)
       /\ lastCall'.op = "plus" =>
            \A a \in DOMAIN heap : a /= lastCall'.this => heap'[a] = heap[a]]_vars

C10_Witness ==
    /\ lastCall.op = "add2" /\ lastCall.args = << >>
    /\ lastCall.ret = Len(heap) /\ Len(heap) >= 3
    /\ heap[Len(heap) - 1] /= Vector(0, 0)
    /\ heap[lastCall.ret] = Vector(0, 0)

----------------------------------------------------------------------------
(* Render ticks between moves of any game object *)

\* gameObjects[i].move(v), v the displacement the listener builds for `key`
FrameMove(i, key) ==
    /\ moves < MaxMoves
    /\ OthersAtStart(i)
    /\ LET d == StepOf(key)
           v == Vector_new(heap, d.x, d.y)
           r == CallMove(v.heap, gameObjects[i], v.ret)
       IN  /\ heap' = Live(r.heap)
           /\ lastCall' = [NoCall EXCEPT !.op = "move", !.key = key,
                                         !.ent = i, !.dx = d.x, !.dy = d.y,
                                         !.threw = r.threw]
    /\ moves' = moves + 1
    /\ UNCHANGED <<gameObjects, frame, rights, ticks, trip, plusTest>>

NextFrame ==
    \/ \E i \in 1..Len(gameObjects), key \in ArrowKey : FrameMove(i, key)
    \/ Render

SpecFrame == Init /\ [][NextFrame]_vars

\* C6: a render tick runs between whole moves: it draws every object at the
\* position its last completed move committed, that position lies in
\* [0, canvas.width - width] x [0, canvas.height - height], and the tick
\* changes no position.
C6_RenderSeesCommitted ==
    [][lastCall'.op = "render" =>
          /\ heap' = heap /\ gameObjects' = gameObjects
          /\ Len(frame') = Len(gameObjects)
          /\ \A i \in 1..Len(gameObjects) :
                LET obj == gameObjects[i]
                IN  /\ frame'[i].x = heap[obj.pos].x
                    /\ frame'[i].y = heap[obj.pos].y
                    /\ frame'[i].width = obj.width
                    /\ frame'[i].height = obj.height
                    /\ InOwnBounds(frame'[i], obj)]_vars

----------------------------------------------------------------------------
(* plus(a); plus(b) against plus(a, b) on equal receivers *)

\* who plays an argument: 0 is the receiver itself, 3 and 4 are the two
\* other vectors
Roles == {0, 3, 4}

ArgOf(this, role) == IF role = 0 THEN this ELSE role

\* p (address 1) and q (address 2) start equal
InitPlus ==
    /\ \E p0 \in Vectors, a \in Vectors, b \in Vectors :
          /\ heap = <<p0, p0, a, b>>
          /\ \E ra \in Roles, rb \in Roles :
                plusTest = [phase |-> "start", a |-> ra, b |-> rb, p0 |-> p0]
    /\ gameObjects = << >>
    /\ frame = << >>
    /\ lastCall = NoVecCall
    /\ rights = 0
    /\ ticks = 0
    /\ trip = NoTrip
    /\ moves = 0

\* this.plus(args), with the call's temporaries dropped afterwards
Plus(this, args) ==
    /\ heap' = SubSeq(Vector_plus(heap, this, args), 1, Len(heap))
    /\ lastCall' = VecCall("plus", this, args, ValuesOf(heap, args),
                           heap[this], this)
    /\ UNCHANGED <<gameObjects, frame, rights, ticks, trip, moves>>

\* p.plus(a)
PlusA ==
    /\ plusTest.phase = "start"
    /\ Plus(1, <<ArgOf(1, plusTest.a)>>)
    /\ plusTest' = [plusTest EXCEPT !.phase = "a"]

\* p.plus(b)
PlusB ==
    /\ plusTest.phase = "a"
    /\ Plus(1, <<ArgOf(1, plusTest.b)>>)
    /\ plusTest' = [plusTest EXCEPT !.phase = "b"]

\* q.plus(a, b)
PlusAB ==
    /\ plusTest.phase = "b"
    /\ Plus(2, <<ArgOf(2, plusTest.a), ArgOf(2, plusTest.b)>>)
    /\ plusTest' = [plusTest EXCEPT !.phase = "done"]

NextPlus ==
    \/ PlusA
    \/ PlusB
    \/ PlusAB

SpecPlus == InitPlus /\ [][NextPlus]_vars

\* the value an argument has when the comparison starts
StartOf(role) == IF role = 0 THEN plusTest.p0 ELSE heap[role]

\* p and q both hold p + a + b, on the starting values
BothAreSum ==
    /\ heap[1] = heap[2]
    /\ heap[1].x = plusTest.p0.x + StartOf(plusTest.a).x + StartOf(plusTest.b).x
    /\ heap[1].y = plusTest.p0.y + StartOf(plusTest.a).y + StartOf(plusTest.b).y

\* C8 as stated: for all vectors a and b, the receiver among them,
\* p.plus(a) followed by p.plus(b) leaves p equal to q after q.plus(a, b),
\* where q started equal to p: both are p + a + b.
C8_PlusSequentialIsVariadic == plusTest.phase = "done" => BothAreSum

\* C8 amended: the same for all vectors a and b where b is not the receiver
\* itself; a may be the receiver, and a and b may be one object.
C8_PlusSequentialIsVariadicOtherB ==
    (plusTest.phase = "done" /\ plusTest.b /= 0) => BothAreSum

C8_Witness ==
    /\ plusTest.phase = "done" /\ plusTest.a = 3 /\ plusTest.b = 4
    /\ lastCall.op = "plus" /\ lastCall.this = 2
    /\ heap[3] /= Vector(0, 0) /\ heap[4] /= Vector(0, 0)
    /\ heap[3] /= heap[4]
    /\ heap[1] = heap[2] /\ heap[2] /= plusTest.p0

====
